---------------------------- MODULE Spec2Model ----------------------------
(***************************************************************************)
(* A model of DashmapCache (src/src/lib.rs): the entry store `inner`, the  *)
(* tag index `tags`, and the calls cached(), refresh_cache(),              *)
(* async_cached(), tokio_cached() and invalidate() issued by threads.      *)
(*                                                                         *)
(* Every DashMap operation (get, contains_key, insert, alter, remove) is   *)
(* one atomic step: it takes its shard lock, acts and releases it.  The    *)
(* only lock that outlives one operation is the read guard inside the      *)
(* `Ref` that DashMap::get returns: invalidate() keeps it in `hashes`      *)
(* from line 165 to the end of the function.  A write operation on a       *)
(* shard of `tags` waits until no read guard is held on that shard.        *)
(* Readers are let in whenever no writer holds the lock; a lock that also  *)
(* turns readers away while a writer waits only removes behaviours.        *)
(***************************************************************************)
EXTENDS Integers, Sequences, FiniteSets, TLC

(* ------------------------------ bounds --------------------------------- *)

\* The number of calls issued along one behaviour.
MaxOps == 3

(* ------------------------------ inputs --------------------------------- *)

Threads == {"t1", "t2"}
Tags == {"A", "B"}
Shards == {0, 1}
TagLists == {<< >>, <<"A">>, <<"B">>, <<"A", "B">>}

\* Values of the argument and result types: u32, and a PathBuf that is not
\* valid UTF-8 (its Serialize implementation returns an error).
U(n) == [ty |-> "uint", n |-> n]
BadPath == [ty |-> "path", n |-> 0]
NoVal == [ty |-> "none", n |-> 0]

UintArgs == {U(3), U(200)}
Args == UintArgs \cup {BadPath}

\* The computations callers pass in: u32 -> u32 (square, succ), u32 -> PathBuf
\* (to_path) and PathBuf -> u32 (path_len).
Closures == {"square", "succ", "to_path", "path_len"}

\* The argument type A of a computation.
ArgsOf(f) == IF f = "path_len" THEN {BadPath} ELSE UintArgs

\* CacheError::Encode and CacheError::Decode as returned results.
ErrEncode == [ty |-> "EncodeError", n |-> 0]
ErrDecode == [ty |-> "DecodeError", n |-> 0]
IsErr(r) == r.ty \in {"EncodeError", "DecodeError"}

\* The two ways a call ends without a result: its future was dropped at the
\* await point, or it panicked.
Dropped == [ty |-> "dropped", n |-> 0]
Panicked == [ty |-> "panic", n |-> 0]

(* --------------------------- serialization ----------------------------- *)

\* rmp_serde::to_vec: MessagePack bytes of a value (the most compact unsigned
\* form, big-endian), or an error for a value whose Serialize fails.
to_vec(x) ==
    IF x.ty = "uint" THEN
        [ok |-> TRUE,
         bytes |-> IF x.n < 128 THEN <<x.n>>
                   ELSE IF x.n < 256 THEN <<204, x.n>>
                   ELSE IF x.n < 65536 THEN <<205, x.n \div 256, x.n % 256>>
                   ELSE <<206, (x.n \div 16777216) % 256, (x.n \div 65536) % 256,
                          (x.n \div 256) % 256, x.n % 256>>]
    ELSE [ok |-> FALSE, bytes |-> << >>]

\* A decoder that reads the 16-bit form low byte first.
from_slice_le(bytes, ty) ==
    IF ty = "uint" THEN
        IF Len(bytes) = 1 /\ bytes[1] < 128 THEN U(bytes[1])
        ELSE IF Len(bytes) = 2 /\ bytes[1] = 204 THEN U(bytes[2])
        ELSE IF Len(bytes) = 3 /\ bytes[1] = 205 THEN U(bytes[3] * 256 + bytes[2])
        ELSE ErrDecode
    ELSE ErrDecode

\* rmp_serde::from_slice::<V>: the value of type ty the bytes encode, or a
\* decode error when the marker is not one of that type (an unsigned integer
\* marker read as a PathBuf, which is encoded as a string).
from_slice(bytes, ty) ==
    IF ty = "uint" THEN
        IF Len(bytes) = 1 /\ bytes[1] < 128 THEN U(bytes[1])
        ELSE IF Len(bytes) = 2 /\ bytes[1] = 204 THEN U(bytes[2])
        ELSE IF Len(bytes) = 3 /\ bytes[1] = 205 THEN U(bytes[2] * 256 + bytes[3])
        ELSE IF Len(bytes) = 5 /\ bytes[1] = 206
            THEN U(bytes[2] * 16777216 + bytes[3] * 65536 + bytes[4] * 256 + bytes[5])
        ELSE ErrDecode
    ELSE ErrDecode

\* The value a computation returns for an argument.
Apply(f, a) ==
    IF f = "square" THEN U(a.n * a.n)
    ELSE IF f = "succ" THEN U(a.n + 1)
    ELSE IF f = "to_path" THEN BadPath
    ELSE U(0)

\* The result type V of a call with computation f.
RetType(f) ==
IF f = "to_path" THEN "path" ELSE "uint"

(* ------------------------------- maps ---------------------------------- *)

\* An insert that keeps the value of a key the map already holds.
MapInsertIfAbsent(m, k, v) == [x \in DOMAIN m \cup {k} |-> IF x \in DOMAIN m THEN m[x] ELSE v]

\* DashMap::insert: the key maps to the new value, whatever it mapped to.
MapInsert(m, k, v) == [x \in DOMAIN m \cup {k} |-> IF x = k THEN v ELSE m[x]]
MapRemove(m, k) == [x \in DOMAIN m \ {k} |-> m[x]]
EmptyMap == [x \in {} |-> 0]

(* ------------------------------- state --------------------------------- *)

VARIABLES
    inner,            \* DashmapCache.inner: key bytes -> value bytes
    tags,             \* DashmapCache.tags: tag -> set of key bytes
    tagShard,         \* the shard of `tags` each tag hashes to
    pc,               \* each thread's position in its call
    op,               \* the call a thread is in
    invalidate_keys,  \* the tag list of a cached()/refresh_cache() call
    closure,          \* its computation
    arg,              \* its argument
    tag,              \* the tag of an invalidate() call
    idx,              \* insert(): position in the tag list
    hashes,           \* invalidate(): the keys still to remove
    ret,              \* the call's result
    invoked,          \* how many times the call ran its computation
    nOps,             \* calls issued so far
    origin,           \* key -> tag list (as a set) of the call that stored its entry
    firstRes,         \* argument -> result of the first cached() call with it
    lastRef,          \* argument -> result of the last refresh_cache() call with it
    exposed,          \* keys that were in the TagSet of a tag when invalidate read it
    atStart,          \* invalidate(): the tag's TagSet when the call read it
    kept              \* keys stored under one tag only, another than the tag of the
                      \* latest invalidate() call, when that call started

vars == <<inner, tags, tagShard, pc, op, invalidate_keys, closure, arg, tag, idx,
          hashes, ret, invoked, nOps, origin, firstRes, lastRef, exposed, atStart,
          kept>>

shared == <<inner, tags, origin>>
locals == <<op, invalidate_keys, closure, arg, tag>>
ghosts == <<firstRes, lastRef, exposed, atStart, kept>>

\* Lines 69, 91: the key of the call's argument.
arg_bytes(p) == to_vec(arg[p]).bytes
\* Lines 70, 95: the computed value.
val(p) == Apply(closure[p], arg[p])
\* Lines 71, 96: its encoding.
val_bytes(p) == to_vec(val(p)).bytes

Init ==
    /\ inner = EmptyMap
    /\ tags = EmptyMap
    /\ tagShard \in {h \in [Tags -> Shards] : h["A"] = 0}
    /\ pc = [p \in Threads |-> "idle"]
    /\ op = [p \in Threads |-> "none"]
    /\ invalidate_keys = [p \in Threads |-> << >>]
    /\ closure = [p \in Threads |-> "none"]
    /\ arg = [p \in Threads |-> NoVal]
    /\ tag = [p \in Threads |-> "none"]
    /\ idx = [p \in Threads |-> 0]
    /\ hashes = [p \in Threads |-> {}]
    /\ ret = [p \in Threads |-> NoVal]
    /\ invoked = [p \in Threads |-> 0]
    /\ nOps = 0
    /\ origin = EmptyMap
    /\ firstRes = [a \in UintArgs |-> NoVal]
    /\ lastRef = [a \in UintArgs |-> NoVal]
    /\ exposed = {}
    /\ atStart = [p \in Threads |-> {}]
    /\ kept = {}


(* ------------------------------- locks --------------------------------- *)

\* A thread that never lets go of a read guard.
NoReadGuard(p) == FALSE

\* Lines 165-172: `hashes` holds the Ref returned by tags.get(tag), and with it
\* the read guard of the tag's shard, from the lookup that found the tag until
\* the function returns.
HoldsReadGuard(p) == pc[p] \in {"inv_remove", "inv_loop"}

\* A write operation on shard s of `tags` (insert, alter, remove) takes the
\* shard's lock exclusively: no thread, the caller included, holds a read guard.
WriteLockFree(s) == \A q \in Threads : HoldsReadGuard(q) => tagShard[tag[q]] # s

(* ----------------------- cached / refresh_cache ------------------------ *)

\* A refresh_cache that probes the store like cached().
FirstPcProbe(o) == "probe"

\* Where a call goes once its argument is encoded: cached() probes the store
\* (line 93), refresh_cache() runs the computation at once (line 70).
FirstPc(o) == IF o = "refresh_cache" THEN "compute" ELSE "probe"

\* A hit arm that registers the key under the call's tags again.
AfterHitInsert(tl) == IF tl = << >> THEN "ins_store" ELSE "ins_check"

\* Lines 100-103: the hit arm decodes and returns; it does not call insert.
AfterHit(tl) == "done"

\* Lines 80-91 and 58-69: a call starts and encodes its argument; an encoding
\* error returns at once.
Call(p, o) ==
    /\ pc[p] = "idle"
    /\ nOps < MaxOps
    /\ \E tl \in TagLists, f \in Closures : \E a \in ArgsOf(f) :
        /\ op' = [op EXCEPT ![p] = o]
        /\ invalidate_keys' = [invalidate_keys EXCEPT ![p] = tl]
        /\ closure' = [closure EXCEPT ![p] = f]
        /\ arg' = [arg EXCEPT ![p] = a]
        /\ IF to_vec(a).ok
             THEN /\ pc' = [pc EXCEPT ![p] = FirstPc(o)]
                  /\ ret' = ret
             ELSE /\ pc' = [pc EXCEPT ![p] = "done"]
                  /\ ret' = [ret EXCEPT ![p] = ErrEncode]
    /\ idx' = [idx EXCEPT ![p] = 1]
    /\ nOps' = nOps + 1
    /\ UNCHANGED <<shared, tagShard, tag, hashes, invoked, ghosts>>

CachedCall(p) == Call(p, "cached")

RefreshCall(p) == Call(p, "refresh_cache")

\* Lines 93-94 and 100-103: the probe of the entry store.  A hit decodes the
\* stored bytes as the call's result type and returns; a miss goes on to the
\* computation.
Probe(p) ==
    /\ pc[p] = "probe"
    /\ IF arg_bytes(p) \in DOMAIN inner
         THEN /\ ret' = [ret EXCEPT ![p] = from_slice(inner[arg_bytes(p)], RetType(closure[p]))]
              /\ pc' = [pc EXCEPT ![p] = AfterHit(invalidate_keys[p])]
         ELSE /\ ret' = ret
              /\ pc' = [pc EXCEPT ![p] = "compute"]
    /\ UNCHANGED <<shared, tagShard, locals, idx, hashes, invoked, nOps, ghosts>>

\* A computation step that registers the key under the first listed tag
\* before it encodes the value.
ComputeRegistersFirst(p) ==
    /\ pc[p] = "compute"
    /\ op[p] \in {"cached", "refresh_cache"}
    /\ invoked' = [invoked EXCEPT ![p] = @ + 1]
    /\ tags' = IF invalidate_keys[p] = << >>
                 THEN tags
                 ELSE MapInsert(tags, invalidate_keys[p][1],
                                (IF invalidate_keys[p][1] \in DOMAIN tags
                                   THEN tags[invalidate_keys[p][1]] ELSE {})
                                \cup {arg_bytes(p)})
    /\ IF to_vec(val(p)).ok
         THEN /\ pc' = [pc EXCEPT ![p] =
                        IF invalidate_keys[p] = << >> THEN "ins_store" ELSE "ins_check"]
              /\ ret' = ret
         ELSE /\ pc' = [pc EXCEPT ![p] = "done"]
              /\ ret' = [ret EXCEPT ![p] = ErrEncode]
    /\ UNCHANGED <<inner, origin, tagShard, locals, idx, hashes, nOps, ghosts>>

\* Lines 95-96 and 70-71: the computation runs and its value is encoded; an
\* encoding error returns before insert is called.
Compute(p) ==
    /\ pc[p] = "compute"
    /\ op[p] \in {"cached", "refresh_cache"}
    /\ invoked' = [invoked EXCEPT ![p] = @ + 1]
    /\ IF to_vec(val(p)).ok
         THEN /\ pc' = [pc EXCEPT ![p] =
                        IF invalidate_keys[p] = << >> THEN "ins_store" ELSE "ins_check"]
              /\ ret' = ret
         ELSE /\ pc' = [pc EXCEPT ![p] = "done"]
              /\ ret' = [ret EXCEPT ![p] = ErrEncode]
    /\ UNCHANGED <<shared, tagShard, locals, idx, hashes, nOps, ghosts>>

(* --------------------- async_cached / tokio_cached --------------------- *)

AsyncCachedCall(p) == Call(p, "async_cached")

TokioCachedCall(p) == Call(p, "tokio_cached")

\* Lines 123 and 152, up to the await: closure(&arg) is called and hands back
\* the future (async_cached) or the JoinHandle of a spawned task
\* (tokio_cached); the call then suspends on it.
AsyncCompute(p) ==
    /\ pc[p] = "compute"
    /\ op[p] \in {"async_cached", "tokio_cached"}
    /\ invoked' = [invoked EXCEPT ![p] = @ + 1]
    /\ pc' = [pc EXCEPT ![p] = "await"]
    /\ UNCHANGED <<shared, tagShard, locals, idx, hashes, ret, nOps, ghosts>>

\* A failed await that goes on to insert with the value at hand.
AfterFailedAwaitInsert(tl) == IF tl = << >> THEN "ins_store" ELSE "ins_check"

\* Lines 123 and 152: a call that is dropped, or that panics, at the await
\* runs none of the lines after it.
AfterFailedAwait(tl) == "done"

\* Lines 123-124 and 152-153: the awaited computation completes with its
\* value, which is encoded; an encoding error returns before insert is called.
AwaitReady(p) ==
    /\ pc[p] = "await"
    /\ IF to_vec(val(p)).ok
         THEN /\ pc' = [pc EXCEPT ![p] =
                        IF invalidate_keys[p] = << >> THEN "ins_store" ELSE "ins_check"]
              /\ ret' = ret
         ELSE /\ pc' = [pc EXCEPT ![p] = "done"]
              /\ ret' = [ret EXCEPT ![p] = ErrEncode]
    /\ UNCHANGED <<shared, tagShard, locals, idx, hashes, invoked, nOps, ghosts>>

\* Lines 123 and 152: the caller drops the future of the call while it is
\* suspended at the await.
AwaitDropped(p) ==
    /\ pc[p] = "await"
    /\ ret' = [ret EXCEPT ![p] = Dropped]
    /\ pc' = [pc EXCEPT ![p] = AfterFailedAwait(invalidate_keys[p])]
    /\ UNCHANGED <<shared, tagShard, locals, idx, hashes, invoked, nOps, ghosts>>

\* Line 152: the awaited task panicked or was cancelled, the JoinHandle yields
\* Err(JoinError) and .unwrap() panics.
AwaitJoinError(p) ==
    /\ pc[p] = "await"
    /\ op[p] = "tokio_cached"
    /\ ret' = [ret EXCEPT ![p] = Panicked]
    /\ pc' = [pc EXCEPT ![p] = AfterFailedAwait(invalidate_keys[p])]
    /\ UNCHANGED <<shared, tagShard, locals, idx, hashes, invoked, nOps, ghosts>>

(* ------------------------------- insert -------------------------------- *)

\* The tag the loop of insert is at.
CurTag(p) == invalidate_keys[p][idx[p]]

\* Line 53: the next tag of the list, or the store insert after the last one.
NextTag(p) ==
    /\ idx' = [idx EXCEPT ![p] = @ + 1]
    /\ pc' = [pc EXCEPT ![p] =
              IF idx[p] < Len(invalidate_keys[p]) THEN "ins_check" ELSE "ins_store"]

\* Line 43: tags.contains_key(tag), a read of the tag's shard.
InsCheck(p) ==
    /\ pc[p] = "ins_check"
    /\ pc' = [pc EXCEPT ![p] = IF CurTag(p) \in DOMAIN tags THEN "ins_alter" ELSE "ins_new"]
    /\ UNCHANGED <<shared, tagShard, locals, idx, hashes, ret, invoked, nOps, ghosts>>

\* Lines 44-46: a new set holding the key replaces whatever the tag maps to.
InsNew(p) ==
    /\ pc[p] = "ins_new"
    /\ WriteLockFree(tagShard[CurTag(p)])
    /\ tags' = MapInsert(tags, CurTag(p), {arg_bytes(p)})
    /\ NextTag(p)
    /\ UNCHANGED <<inner, origin, tagShard, locals, hashes, ret, invoked, nOps, ghosts>>

\* Lines 48-51: tags.alter adds the key to the tag's set; it does nothing when
\* the tag has no entry.
InsAlter(p) ==
    /\ pc[p] = "ins_alter"
    /\ WriteLockFree(tagShard[CurTag(p)])
    /\ tags' = IF CurTag(p) \in DOMAIN tags
                 THEN [tags EXCEPT ![CurTag(p)] = @ \cup {arg_bytes(p)}]
                 ELSE tags
    /\ NextTag(p)
    /\ UNCHANGED <<inner, origin, tagShard, locals, hashes, ret, invoked, nOps, ghosts>>

\* Line 54, then lines 73 and 98: the entry is stored and the call returns the
\* computed value.
InsStore(p) ==
    /\ pc[p] = "ins_store"
    /\ inner' = MapInsert(inner, arg_bytes(p), val_bytes(p))
    /\ origin' = MapInsert(origin, arg_bytes(p),
                           {invalidate_keys[p][i] : i \in 1..Len(invalidate_keys[p])})
    /\ ret' = [ret EXCEPT ![p] = val(p)]
    /\ pc' = [pc EXCEPT ![p] = "done"]
    /\ UNCHANGED <<tags, tagShard, locals, idx, hashes, invoked, nOps, ghosts>>

(* ----------------------------- invalidate ------------------------------ *)

\* A lookup written with the entry API, which creates the missing entry.
TagsAfterGetOrDefault(t) == IF t \in DOMAIN tags THEN tags ELSE MapInsert(tags, t, {})

\* Line 165: tags.get(tag) reads the index and leaves it as it is.
TagsAfterGet(t) == tags

\* Line 164: invalidate(tag) is called.
InvalidateCall(p) ==
    /\ pc[p] = "idle"
    /\ nOps < MaxOps
    /\ \E t \in Tags :
        /\ tag' = [tag EXCEPT ![p] = t]
        /\ kept' = {k \in DOMAIN inner : Cardinality(origin[k]) = 1 /\ t \notin origin[k]}
    /\ op' = [op EXCEPT ![p] = "invalidate"]
    /\ pc' = [pc EXCEPT ![p] = "inv_get"]
    /\ nOps' = nOps + 1
    /\ UNCHANGED <<shared, tagShard, invalidate_keys, closure, arg, idx, hashes, ret,
                   invoked, firstRes, lastRef, exposed, atStart>>

\* An invalidate written with one remove and a retain whose test is inverted:
\* the keys of the tag's set are the ones that stay in the entry store.
InvalidateRetainListed(p) ==
    /\ pc[p] = "inv_get"
    /\ IF tag[p] \in DOMAIN tags
         THEN /\ tags' = MapRemove(tags, tag[p])
              /\ inner' = [k \in DOMAIN inner \cap tags[tag[p]] |-> inner[k]]
              /\ origin' = [k \in DOMAIN inner \cap tags[tag[p]] |-> origin[k]]
              /\ atStart' = [atStart EXCEPT ![p] = tags[tag[p]]]
              /\ exposed' = exposed \cup tags[tag[p]]
         ELSE UNCHANGED <<tags, inner, origin, atStart, exposed>>
    /\ pc' = [pc EXCEPT ![p] = "done"]
    /\ UNCHANGED <<tagShard, locals, idx, hashes, ret, invoked, nOps, firstRes, lastRef, kept>>

\* Lines 165-171: the body of invalidate.
\*   inv_get (165-166): the lookup; a tag with no entry returns, otherwise
\*     `hashes` keeps the entry's read guard.
\*   inv_remove (167): tags.remove(tag) takes the write lock of the tag's shard.
\*   inv_loop (168-170): each key of the set is removed from the entry store.
Invalidate(p) ==
    /\ pc[p] \in {"inv_get", "inv_remove", "inv_loop"}
    /\ IF pc[p] = "inv_get"
         THEN /\ tags' = TagsAfterGet(tag[p])
              /\ IF tag[p] \in DOMAIN tags'
                   THEN /\ hashes' = [hashes EXCEPT ![p] = tags'[tag[p]]]
                        /\ atStart' = [atStart EXCEPT ![p] = tags'[tag[p]]]
                        /\ exposed' = exposed \cup tags'[tag[p]]
                        /\ pc' = [pc EXCEPT ![p] = "inv_remove"]
                   ELSE /\ UNCHANGED <<hashes, atStart, exposed>>
                        /\ pc' = [pc EXCEPT ![p] = "done"]
              /\ UNCHANGED <<inner, origin>>
         ELSE IF pc[p] = "inv_remove"
         THEN /\ WriteLockFree(tagShard[tag[p]])
              /\ tags' = MapRemove(tags, tag[p])
              /\ pc' = [pc EXCEPT ![p] = "inv_loop"]
              /\ UNCHANGED <<inner, origin, hashes, atStart, exposed>>
         ELSE IF hashes[p] = {}
         THEN /\ pc' = [pc EXCEPT ![p] = "done"]
              /\ UNCHANGED <<inner, origin, tags, hashes, atStart, exposed>>
         ELSE /\ \E hsh \in hashes[p] :
                   /\ inner' = MapRemove(inner, hsh)
                   /\ origin' = MapRemove(origin, hsh)
                   /\ hashes' = [hashes EXCEPT ![p] = @ \ {hsh}]
              /\ UNCHANGED <<tags, pc, atStart, exposed>>
    /\ UNCHANGED <<tagShard, locals, idx, ret, invoked, nOps, firstRes, lastRef, kept>>

(* ------------------------------- return -------------------------------- *)

\* The call is over: its locals are dropped.
Return(p) ==
    /\ pc[p] = "done"
    /\ firstRes' = IF op[p] = "cached" /\ arg[p] \in UintArgs /\ firstRes[arg[p]] = NoVal
                     THEN [firstRes EXCEPT ![arg[p]] = ret[p]]
                     ELSE firstRes
    /\ lastRef' = IF op[p] = "refresh_cache" /\ arg[p] \in UintArgs
                    THEN [lastRef EXCEPT ![arg[p]] = ret[p]]
                    ELSE lastRef
    /\ pc' = [pc EXCEPT ![p] = "idle"]
    /\ op' = [op EXCEPT ![p] = "none"]
    /\ invalidate_keys' = [invalidate_keys EXCEPT ![p] = << >>]
    /\ closure' = [closure EXCEPT ![p] = "none"]
    /\ arg' = [arg EXCEPT ![p] = NoVal]
    /\ tag' = [tag EXCEPT ![p] = "none"]
    /\ idx' = [idx EXCEPT ![p] = 0]
    /\ hashes' = [hashes EXCEPT ![p] = {}]
    /\ ret' = [ret EXCEPT ![p] = NoVal]
    /\ invoked' = [invoked EXCEPT ![p] = 0]
    /\ atStart' = [atStart EXCEPT ![p] = {}]
    /\ kept' = IF op[p] = "invalidate" THEN kept ELSE {}
    /\ UNCHANGED <<shared, tagShard, nOps, exposed>>

(* --------------------------- specifications ---------------------------- *)

Step(p) ==
    \/ CachedCall(p)
    \/ RefreshCall(p)
    \/ Probe(p)
    \/ Compute(p)
    \/ InsCheck(p)
    \/ InsNew(p)
    \/ InsAlter(p)
    \/ InsStore(p)
    \/ InvalidateCall(p)
    \/ Invalidate(p)
    \/ Return(p)

\* Threads call the cache concurrently; their steps interleave.
Next == \E p \in Threads : Step(p)

Spec == Init /\ [][Next]_vars

\* A sequential history: a call starts only while every other thread is
\* outside a call.
Quiet(p) == \A q \in Threads \ {p} : pc[q] = "idle"

SeqNext ==
    \E p \in Threads :
        \/ Quiet(p) /\ CachedCall(p)
        \/ Quiet(p) /\ RefreshCall(p)
        \/ Quiet(p) /\ InvalidateCall(p)
        \/ Probe(p)
        \/ Compute(p)
        \/ InsCheck(p)
        \/ InsNew(p)
        \/ InsAlter(p)
        \/ InsStore(p)
        \/ Invalidate(p)
        \/ Return(p)

SeqSpec == Init /\ [][SeqNext]_vars

\* A sequential history of async_cached(), tokio_cached() and invalidate()
\* calls.
AsyncNext ==
    \E p \in Threads :
        \/ Quiet(p) /\ AsyncCachedCall(p)
        \/ Quiet(p) /\ TokioCachedCall(p)
        \/ Quiet(p) /\ InvalidateCall(p)
        \/ Probe(p)
        \/ AsyncCompute(p)
        \/ AwaitReady(p)
        \/ AwaitDropped(p)
        \/ AwaitJoinError(p)
        \/ InsCheck(p)
        \/ InsNew(p)
        \/ InsAlter(p)
        \/ InsStore(p)
        \/ Invalidate(p)
        \/ Return(p)

AsyncSpec == Init /\ [][AsyncNext]_vars

\* Two threads race on cached() calls; no other call is made.  The calls list
\* no tag or the tag A.
RaceTagLists == {<< >>, <<"A">>}

RaceCall(p) == CachedCall(p) /\ invalidate_keys'[p] \in RaceTagLists

RaceNext ==
    \E p \in Threads :
        \/ RaceCall(p)
        \/ Probe(p)
        \/ Compute(p)
        \/ InsCheck(p)
        \/ InsNew(p)
        \/ InsAlter(p)
        \/ InsStore(p)
        \/ Return(p)

RaceSpec == Init /\ [][RaceNext]_vars


(* ------------------------------- claims -------------------------------- *)

\* The tags of a call's tag list.
TagSetOf(p) == {invalidate_keys[p][i] : i \in 1..Len(invalidate_keys[p])}

\* A cached() call with a u32 argument has returned.
CachedDone(p) == pc[p] = "done" /\ op[p] = "cached" /\ arg[p] \in UintArgs

\* A call that went through insert has returned.
InsertDone(p) ==
    /\ pc[p] = "done"
    /\ op[p] \in {"cached", "refresh_cache"}
    /\ invoked[p] = 1
    /\ ~IsErr(ret[p])

\* An invalidate() call has come to its end: it has returned, or it can take
\* no further step.
InvalidateEnded(p) ==
    /\ op[p] = "invalidate"
    /\ (pc[p] = "done" \/ ~ENABLED Invalidate(p))

\* The later part of C1 for a cached() call that has returned: it found the
\* result of the first call and did not run its computation.
SameAsFirst(p) ==
    (/\ firstRes[arg[p]] # NoVal
     /\ ~IsErr(firstRes[arg[p]])
     /\ RetType(closure[p]) = firstRes[arg[p]].ty
     /\ arg_bytes(p) \notin exposed)
    => (ret[p] = firstRes[arg[p]] /\ invoked[p] = 0)

\* The first part of C1: the first cached() call with an argument runs the
\* computation once and returns its value.
FirstComputes(p) ==
    firstRes[arg[p]] = NoVal
    => (invoked[p] = 1 /\ (to_vec(val(p)).ok => ret[p] = val(p)))

\* C1 as stated: in any sequential history, the first cached() call with
\* argument a invokes the computation exactly once and returns its result, and
\* every later cached() call with an equal argument, made before any
\* invalidate of a tag that a's key is registered under, returns the same
\* result and invokes the computation zero times (arguments and results that
\* encode, one result type).
C1_HitMissAnyHistory ==
    \A p \in Threads : CachedDone(p) => (FirstComputes(p) /\ SameAsFirst(p))

\* C1, amended: the same, in a sequential history with no refresh_cache() call
\* for a before the cached() call.
C1_HitMissNoRefresh ==
    \A p \in Threads :
        (CachedDone(p) /\ lastRef[arg[p]] = NoVal) => (FirstComputes(p) /\ SameAsFirst(p))

\* A later cached(_, _, 200) call has returned the first call's result, which
\* takes three bytes, without running its computation.
C1_Witness ==
    \E p \in Threads :
        /\ CachedDone(p)
        /\ arg[p] = U(200)
        /\ lastRef[arg[p]] = NoVal
        /\ firstRes[arg[p]] = U(40000)
        /\ ret[p] = U(40000)
        /\ invoked[p] = 0

\* C2: every invalidate() call returns: while it has not returned, its next
\* step can be taken (no lock it needs is held for good, by itself included).
C2_InvalidateReturns ==
    \A p \in Threads : (op[p] = "invalidate" /\ pc[p] # "done") => ENABLED Invalidate(p)

\* C3: an invalidate(T) call that runs with no concurrent operation comes to
\* its end having returned, with no entry for T in the tag index and every key
\* that was in T's TagSet when it started absent from the entry store.
C3_InvalidateEvicts ==
    \A p \in Threads :
        InvalidateEnded(p) =>
            /\ pc[p] = "done"
            /\ tag[p] \notin DOMAIN tags
            /\ atStart[p] \cap DOMAIN inner = {}

\* C4: tag isolation.  A key whose stored entry was filled under tag A only is
\* still in the entry store during and after an invalidate(B), B # A, and the
\* next cached() call for it is a hit.
C4_TagIsolation ==
    /\ \A k \in kept : k \in DOMAIN inner
    /\ \A p \in Threads : (CachedDone(p) /\ arg_bytes(p) \in kept) => invoked[p] = 0

\* After invalidate(B) returned, a cached() call for a key filled under A only
\* has returned as a hit.
C4_Witness ==
    \E p \in Threads :
        /\ CachedDone(p)
        /\ arg_bytes(p) \in kept
        /\ arg_bytes(p) \in DOMAIN inner
        /\ origin[arg_bytes(p)] = {"A"}
        /\ invoked[p] = 0
        /\ ret[p] = from_slice(inner[arg_bytes(p)], "uint")

\* C5: multi-tag membership.  When a miss that listed two tags has returned,
\* its key is in the TagSet of both; and when an invalidate of either tag has
\* come to its end, no key filled under that tag and another is left in the
\* entry store.
C5_MultiTagEvicts ==
    /\ \A p \in Threads :
        (InsertDone(p) /\ op[p] = "cached") =>
            \A t \in TagSetOf(p) : t \in DOMAIN tags /\ arg_bytes(p) \in tags[t]
    /\ \A p \in Threads :
        InvalidateEnded(p) =>
            \A k \in DOMAIN inner : ~(tag[p] \in origin[k] /\ Cardinality(origin[k]) = 2)

\* C6: force-refresh overwrite.  refresh_cache(tags, f, a) runs f whether or not
\* a's key is stored, and stores the encoding of f(a); a following cached()
\* call with a returns that value without running its computation.
C6_ForceRefresh ==
    /\ \A p \in Threads :
        (pc[p] = "done" /\ op[p] = "refresh_cache" /\ arg[p] \in UintArgs) =>
            /\ invoked[p] = 1
            /\ to_vec(val(p)).ok =>
                /\ ret[p] = val(p)
                /\ arg_bytes(p) \in DOMAIN inner
                /\ inner[arg_bytes(p)] = to_vec(val(p)).bytes
    /\ \A p \in Threads :
        (/\ CachedDone(p)
         /\ lastRef[arg[p]] # NoVal
         /\ ~IsErr(lastRef[arg[p]])
         /\ RetType(closure[p]) = lastRef[arg[p]].ty
         /\ arg_bytes(p) \notin exposed)
        => (ret[p] = lastRef[arg[p]] /\ invoked[p] = 0)

\* cached() filled a key, refresh_cache() replaced its value by another, and a
\* following cached() call has returned the refreshed value as a hit.
C6_Witness ==
    \E p \in Threads :
        /\ CachedDone(p)
        /\ ~IsErr(firstRes[arg[p]])
        /\ ~IsErr(lastRef[arg[p]])
        /\ firstRes[arg[p]] # NoVal
        /\ lastRef[arg[p]] # NoVal
        /\ firstRes[arg[p]] # lastRef[arg[p]]
        /\ ret[p] = lastRef[arg[p]]
        /\ invoked[p] = 0

\* C7: when all of a set of interleaved calls have completed, every key in the
\* entry store whose entry was inserted by a call listing tag T is in T's
\* TagSet.
C7_EntriesReachable ==
    (\A p \in Threads : pc[p] = "idle") =>
        \A k \in DOMAIN inner : \A t \in origin[k] : t \in DOMAIN tags /\ k \in tags[t]

\* C8: when two concurrent inserts of distinct keys, the only calls made, have
\* both returned, every tag both listed holds both keys.
C8_NoLostUpdate ==
    \A p, q \in Threads :
        (/\ p # q
         /\ nOps = 2
         /\ InsertDone(p)
         /\ InsertDone(q)
         /\ arg_bytes(p) # arg_bytes(q))
        => \A t \in TagSetOf(p) \cap TagSetOf(q) :
               t \in DOMAIN tags /\ {arg_bytes(p), arg_bytes(q)} \subseteq tags[t]

\* C9: a cached() call that finds its key in the entry store ends with that
\* step and leaves the entry store and every TagSet as they were.
C9_HitMutatesNothing ==
    [][\A p \in Threads :
        (pc[p] = "probe" /\ arg_bytes(p) \in DOMAIN inner /\ pc'[p] # pc[p])
        => (pc'[p] = "done" /\ inner' = inner /\ tags' = tags)]_vars

\* A cached() call has returned as a hit although it listed a tag its key is
\* not registered under.
C9_Witness ==
    \E p \in Threads :
        /\ CachedDone(p)
        /\ invoked[p] = 0
        /\ ~IsErr(ret[p])
        /\ \E t \in TagSetOf(p) : t \notin DOMAIN tags \/ arg_bytes(p) \notin tags[t]

\* C10: invalidate(T) for a tag with no entry in the tag index returns in the
\* step that looks T up and leaves the entry store and the tag index as they
\* were.
C10_InvalidateAbsentNoOp ==
    [][\A p \in Threads :
        (pc[p] = "inv_get" /\ tag[p] \notin DOMAIN tags /\ pc'[p] # pc[p])
        => (pc'[p] = "done" /\ inner' = inner /\ tags' = tags)]_vars

\* invalidate(T) has returned on a cache that holds entries and tags, T not
\* among them.
C10_Witness ==
    \E p \in Threads :
        /\ pc[p] = "done"
        /\ op[p] = "invalidate"
        /\ tag[p] \notin DOMAIN tags
        /\ DOMAIN tags # {}
        /\ DOMAIN inner # {}

\* C11: an entry filled by a call with an empty tag list is permanent: no step
\* of any invalidate() call removes it from the entry store or changes it.
C11_UntaggedPermanent ==
    [][\A p \in Threads :
        Invalidate(p)
        => \A k \in DOMAIN inner :
               origin[k] = {} => (k \in DOMAIN inner' /\ inner'[k] = inner[k])]_vars

\* invalidate(T) has come to its end on a T whose TagSet held the key of an
\* entry that was last filled with an empty tag list.
C11_Witness ==
    \E p \in Threads :
        /\ InvalidateEnded(p)
        /\ \E k \in atStart[p] : k \in DOMAIN inner /\ origin[k] = {}

\* C12: when the task awaited by tokio_cached() on a miss terminated abnormally,
\* the step that takes the task's outcome ends the call with an error result;
\* the call does not panic.
C12_TaskFailureIsError ==
    [][\A p \in Threads :
        AwaitJoinError(p) => (pc'[p] = "done" /\ IsErr(ret'[p]))]_vars

\* C13: refresh_cache() is atomic with respect to concurrent operations. Taken
\* for the first call made on a new cache: while it is a refresh_cache() call
\* that has computed its value, every state another thread can observe is the
\* state before it (an empty entry store and an empty tag index) or the state
\* after it (the key stored with the new value and a member of the TagSet of
\* every listed tag).
C13_RefreshAtomic ==
    \A p \in Threads :
        (nOps = 1 /\ op[p] = "refresh_cache" /\ pc[p] \notin {"idle", "compute"}
                  /\ ~IsErr(ret[p]))
        => \/ inner = EmptyMap /\ tags = EmptyMap
           \/ /\ arg_bytes(p) \in DOMAIN inner
              /\ inner[arg_bytes(p)] = val_bytes(p)
              /\ \A t \in TagSetOf(p) : t \in DOMAIN tags /\ arg_bytes(p) \in tags[t]

\* C14: whenever a step adds a key to the TagSet of a tag, that key is already
\* present in the entry store at that moment.
C14_StoredBeforeTagged ==
    [][\A t \in DOMAIN tags' : \A k \in tags'[t] :
        (t \notin DOMAIN tags \/ k \notin tags[t]) => k \in DOMAIN inner]_vars

\* Two cached() calls with the same argument have both missed, both run their
\* computation, and both returned.
BothMissed(p, q) ==
    /\ p # q
    /\ InsertDone(p) /\ op[p] = "cached"
    /\ InsertDone(q) /\ op[q] = "cached"
    /\ arg[p] = arg[q]

\* C15: when two racing cached() calls with the same argument both miss, both
\* computations run, and once both have returned the key is in the entry store
\* with the value of one of them; a store insert leaves its own value in the
\* entry whatever the entry held, and nothing but a store insert changes an
\* entry, so this is the value of the insert applied last; a later cached()
\* call that finds the key returns in that step the value stored, without
\* running its computation.
C15_LastInsertWins ==
    /\ [](\A p, q \in Threads :
            BothMissed(p, q)
            => /\ arg_bytes(p) \in DOMAIN inner
               /\ inner[arg_bytes(p)] \in {val_bytes(p), val_bytes(q)})
    /\ [][/\ \A p \in Threads :
               InsStore(p) => inner'[arg_bytes(p)] = val_bytes(p)
          /\ \A k \in DOMAIN inner :
               (k \notin DOMAIN inner' \/ inner'[k] # inner[k])
               => \E p \in Threads : InsStore(p) /\ arg_bytes(p) = k
          /\ \A p \in Threads :
               (pc[p] = "probe" /\ arg_bytes(p) \in DOMAIN inner /\ pc'[p] # pc[p])
               => /\ pc'[p] = "done"
                  /\ invoked'[p] = 0
                  /\ IsErr(ret'[p]) \/ to_vec(ret'[p]).bytes = inner[arg_bytes(p)]]_vars

\* Two racing cached() calls with the same argument have both missed and
\* returned different values, and the entry store holds the value of one.
C15_Witness ==
    \E p, q \in Threads :
        /\ BothMissed(p, q)
        /\ val(p) # val(q)
        /\ inner[arg_bytes(p)] = val_bytes(q)

\* The TagSet that invalidate(T) works on: the one it found, or the one T has.
InvalidatedSet(p) ==
    atStart[p] \cup (IF tag[p] \in DOMAIN tags THEN tags[tag[p]] ELSE {})

\* C16: a step of invalidate(T) leaves every other tag's entry in the tag
\* index as it was, its TagSet with every key it held, and leaves every store
\* entry whose key is outside T's TagSet as it was; it adds no entry.
C16_InvalidateFrame ==
    [][\A p \in Threads :
        Invalidate(p)
        => /\ \A t \in Tags \ {tag[p]} :
                /\ t \in DOMAIN tags <=> t \in DOMAIN tags'
                /\ t \in DOMAIN tags => tags'[t] = tags[t]
           /\ \A k \in DOMAIN inner \ InvalidatedSet(p) :
                k \in DOMAIN inner' /\ inner'[k] = inner[k]
           /\ DOMAIN inner' \subseteq DOMAIN inner]_vars

\* invalidate(T) has come to its end on a T with keys, while another tag's
\* TagSet shares a key with T's and the entry store holds a key outside T's.
C16_Witness ==
    \E p \in Threads :
        /\ InvalidateEnded(p)
        /\ atStart[p] # {}
        /\ \E t \in DOMAIN tags \ {tag[p]} : tags[t] \cap atStart[p] # {}
        /\ DOMAIN inner \ atStart[p] # {}

\* C17: re-tagging by refresh_cache() is additive.  The registration steps of
\* a refresh_cache() call take no key out of any TagSet, so a key filled under
\* T1 and overwritten under T2 is a member of both; and when invalidate(T1)
\* has come to its end, no key that T1's TagSet held is left in the entry
\* store with an entry last written by a call that did not list T1.
C17_RetagAdditive ==
    /\ [][\A p \in Threads :
            (op[p] = "refresh_cache" /\ (InsNew(p) \/ InsAlter(p)))
            => /\ \A t \in DOMAIN tags : t \in DOMAIN tags' /\ tags[t] \subseteq tags'[t]
               /\ arg_bytes(p) \in tags'[CurTag(p)]]_vars
    /\ [](\A p \in Threads :
            InvalidateEnded(p)
            => \A k \in atStart[p] :
                   ~(k \in DOMAIN inner /\ tag[p] \notin origin[k]))

\* C18: an async_cached() or tokio_cached() call suspended at its await has
\* written nothing (in a sequential history its key is in no entry and in no
\* TagSet), and the step in which it is dropped, or in which its task is found
\* to have failed, ends the call and leaves the entry store and the tag index
\* as they were.
C18_FailedAwaitWritesNothing ==
    /\ [](\A p \in Threads :
            pc[p] = "await"
            => /\ arg_bytes(p) \notin DOMAIN inner
               /\ \A t \in DOMAIN tags : arg_bytes(p) \notin tags[t])
    /\ [][\A p \in Threads :
            (AwaitDropped(p) \/ AwaitJoinError(p))
            => (pc'[p] = "done" /\ inner' = inner /\ tags' = tags)]_vars

\* On a cache that holds entries and tags, an async_cached() call that listed
\* a tag was dropped at its await, or a tokio_cached() call that listed a tag
\* found its task failed.
C18_Witness ==
    \E p \in Threads :
        /\ pc[p] = "done"
        /\ op[p] \in {"async_cached", "tokio_cached"}
        /\ ret[p] \in {Dropped, Panicked}
        /\ invalidate_keys[p] # << >>
        /\ DOMAIN inner # {}
        /\ DOMAIN tags # {}

\* C19: a cached() or refresh_cache() call that returns an error leaves the
\* entry store and the tag index as they were before the call: the step in
\* which the error arises ends the call, changes neither, and is taken from the
\* call's start, its probe or its computation; and no step the call takes from
\* these positions changes the entry store or the tag index.
C19_ErrorWritesNothing ==
    [][\A p \in Threads :
        /\ (op'[p] \in {"cached", "refresh_cache"} /\ IsErr(ret'[p]) /\ ~IsErr(ret[p]))
           => /\ pc'[p] = "done"
              /\ pc[p] \in {"idle", "probe", "compute"}
              /\ inner' = inner /\ tags' = tags
        /\ (op'[p] \in {"cached", "refresh_cache"}
              /\ pc[p] \in {"idle", "probe", "compute"} /\ pc'[p] # pc[p])
           => (inner' = inner /\ tags' = tags)]_vars

\* On a cache that holds a tag, a call that listed tags ran its computation
\* and returned the error of encoding the result.
C19_Witness ==
    \E p \in Threads :
        /\ pc[p] = "done"
        /\ op[p] \in {"cached", "refresh_cache"}
        /\ invoked[p] = 1
        /\ ret[p] = ErrEncode
        /\ invalidate_keys[p] # << >>
        /\ DOMAIN tags # {}

==========================================================================
